---- MODULE Spec2Model ----
(***************************************************************************)
(* Bootstrap estimation of 90% confidence intervals (RStainforth/          *)
(* MiscScripts).  Three scripts share one kernel: for each sample size s   *)
(* of sample_sizes, num_iterations times draw s values from the parent     *)
(* population rnp without replacement, evaluate the statistics of the      *)
(* script on the draw, and summarise each raw series by percentiles.       *)
(*                                                                         *)
(*   "GM"    bootstrap_radon_levels.py           sample median             *)
(*   "KS"    bootstrap_radon_levels_KS.py        KS D-statistic, p-value   *)
(*   "FINAL" bootstrap_radon_levels_KS_FINAL.py  KS D, p-value, % > 200    *)
(*                                                                         *)
(* Floating-point numbers are modelled as exact rationals <<num, den>> in  *)
(* lowest terms with den > 0; population values are integers.              *)
(***************************************************************************)
EXTENDS Integers, Sequences, FiniteSets

\* ---------------------------------------------------------------- bounds
PopSize == 4
MaxSweep == 2
MaxIter == 2

\* Threshold of the exceedance count, "if (z > 200)".
Threshold == 200

\* The parent populations tried: pairwise distinct values, values with
\* ties, and a constant population.
Populations ==
    { [k \in 1..PopSize |-> 100 + 50 * k],
      [k \in 1..PopSize |-> 200 + 50 * (k % 2)],
      [k \in 1..PopSize |-> Threshold] }
Scripts == {"GM", "KS", "FINAL"}

\* ------------------------------------------------------------- rationals
Abs(x) == IF x < 0 THEN -x ELSE x

RECURSIVE GCD(_, _)
GCD(a, b) == IF b = 0 THEN a ELSE GCD(b, a % b)

RNorm(n, d) ==
    LET g == GCD(Abs(n), Abs(d))
        sg == IF d < 0 THEN -1 ELSE 1
    IN  <<(sg * n) \div g, (sg * d) \div g>>

FromInt(n) == <<n, 1>>
RAdd(x, y) == RNorm(x[1] * y[2] + y[1] * x[2], x[2] * y[2])
RSub(x, y) == RNorm(x[1] * y[2] - y[1] * x[2], x[2] * y[2])
RMul(x, y) == RNorm(x[1] * y[1], x[2] * y[2])
RLe(x, y) == x[1] * y[2] <= y[1] * x[2]
RLt(x, y) == x[1] * y[2] < y[1] * x[2]

One == FromInt(1)

\* ------------------------------------------------------- numpy / scipy
\* Faulty variant: the comparison is reversed, the order is descending.
RECURSIVE InsertDescending(_, _)
InsertDescending(x, a) ==
    IF a = <<>> THEN <<x>>
    ELSE IF RLe(Head(a), x) THEN <<x>> \o a
    ELSE <<Head(a)>> \o InsertDescending(x, Tail(a))

\* np.sort as used inside np.percentile: ascending order (insertion sort).
RECURSIVE Insert(_, _)
Insert(x, a) ==
    IF a = <<>> THEN <<x>>
    ELSE IF RLe(x, Head(a)) THEN <<x>> \o a
    ELSE <<Head(a)>> \o Insert(x, Tail(a))

\* Faulty variant: the array is used in the order given.
SortNone(a) == a

RECURSIVE Sort(_)
Sort(a) == IF a = <<>> THEN <<>> ELSE Insert(Head(a), Sort(Tail(a)))

\* np.percentile raises on an empty array (numpy >= 1.22: IndexError).
PercentileFails(a) == Len(a) = 0

\* _lerp(a, b, t) of numpy's quantile code, in exact arithmetic.
Lerp(a, b, t) == RAdd(a, RMul(RSub(b, a), t))

\* Faulty variant: method "lower", the value at the floor of the virtual index.
PercentileLower(a, p) ==
    LET n == Len(a)
        arr == Sort(a)
    IN  arr[(((n - 1) * p) \div 100) + 1]

\* np.percentile(a, p), default method "linear": the virtual index is
\* (n-1)*p/100 (0-based); previous = floor, next = previous + 1, both set
\* to the last index when the virtual index is >= n-1; gamma is the
\* fractional part; the result interpolates the sorted array.
Percentile(a, p) ==
    LET n == Len(a)
        arr == Sort(a)
        vnum == (n - 1) * p
        above == vnum >= (n - 1) * 100
        previous == IF above THEN n - 1 ELSE vnum \div 100
        next == IF above THEN n - 1 ELSE (vnum \div 100) + 1
        gamma == RNorm(vnum - 100 * (vnum \div 100), 100)
    IN  Lerp(arr[previous + 1], arr[next + 1], gamma)

\* Integer array viewed as an array of floats.
AsFloats(a) == [k \in DOMAIN a |-> FromInt(a[k])]

\* Faulty variant: the draw made with replacement.
ChoiceWithReplacement(popsize, n) ==
    IF n < 0 \/ n > popsize THEN {} ELSE [1..n -> 1..popsize]

\* Faulty variant: an oversized request is clamped to the population size.
ChoiceClamped(popsize, n) ==
    IF n < 0 THEN {}
    ELSE LET m == IF n > popsize THEN popsize ELSE n
         IN  {sel \in [1..m -> 1..popsize] :
                \A j, k \in 1..m : j # k => sel[j] # sel[k]}

\* np.random.choice(rnp, size=n, replace=False): the possible index
\* selections, permutation(pop_size)[:n]; empty when the call raises
\* ValueError (negative size, or size larger than the population).
Choice(popsize, n) ==
    IF n < 0 \/ n > popsize THEN {}
    ELSE {sel \in [1..n -> 1..popsize] :
            \A j, k \in 1..n : j # k => sel[j] # sel[k]}

\* rnp[sel]
Take(pop, sel) == [k \in DOMAIN sel |-> pop[sel[k]]]

\* Faulty variant: values equal to the threshold are counted.
RECURSIVE CountFrAtLeast(_)
CountFrAtLeast(vals) ==
    IF vals = <<>> THEN 0
    ELSE (IF Head(vals) >= Threshold THEN 1 ELSE 0) + CountFrAtLeast(Tail(vals))

\* The exceedance loop: count_tot counts every value, count_fr those > 200.
RECURSIVE CountFr(_)
CountFr(vals) ==
    IF vals = <<>> THEN 0
    ELSE (IF Head(vals) > Threshold THEN 1 ELSE 0) + CountFr(Tail(vals))

RECURSIVE CountTot(_)
CountTot(vals) == IF vals = <<>> THEN 0 ELSE 1 + CountTot(Tail(vals))

\* 100.0*count_fr/count_tot raises ZeroDivisionError when count_tot = 0.
ExceedFails(vals) == CountTot(vals) = 0
Exceed(vals) == RNorm(100 * CountFr(vals), CountTot(vals))

\* np.searchsorted(np.sort(data), x, side='right'): number of values <= x.
SearchSorted(data, x) == Cardinality({k \in DOMAIN data : data[k] <= x})

SetMax(S) == CHOOSE x \in S : \A y \in S : y <= x
SetMin(S) == CHOOSE x \in S : \A y \in S : x <= y

\* scipy.stats.ks_2samp raises ValueError when either sample is empty.
KsFails(data1, data2) == Len(data1) = 0 \/ Len(data2) = 0

\* Faulty variant: the second empirical CDF is taken with side='left'.
CdDiffsLeft(data1, data2) ==
    LET n1 == Len(data1)
        n2 == Len(data2)
        data_all == data1 \o data2
    IN  {SearchSorted(data1, data_all[k]) * n2
           - Cardinality({j \in DOMAIN data2 : data2[j] < data_all[k]}) * n1 :
               k \in DOMAIN data_all}

\* cddiffs = cdf1 - cdf2 over data_all, as numerators over n1*n2.
CdDiffs(data1, data2) ==
    LET n1 == Len(data1)
        n2 == Len(data2)
        data_all == data1 \o data2
    IN  {SearchSorted(data1, data_all[k]) * n2
           - SearchSorted(data2, data_all[k]) * n1 : k \in DOMAIN data_all}

\* d = max(minS, maxS), minS = clip(-min(cddiffs), 0, 1), maxS = max(cddiffs),
\* as a numerator over n1*n2.
KsNum(data1, data2) ==
    LET diffs == CdDiffs(data1, data2)
        n1n2 == Len(data1) * Len(data2)
        negmin == -SetMin(diffs)
        minS == IF negmin < 0 THEN 0 ELSE IF negmin > n1n2 THEN n1n2 ELSE negmin
        maxS == SetMax(diffs)
    IN  IF minS > maxS THEN minS ELSE maxS

\* cur_ks_test.statistic
KsStatistic(data1, data2) == RNorm(KsNum(data1, data2), Len(data1) * Len(data2))

RECURSIVE Binomial(_, _)
Binomial(n, k) ==
    IF k = 0 \/ k = n THEN 1 ELSE Binomial(n - 1, k - 1) + Binomial(n - 1, k)

\* Lattice paths from (0,0) to (x,y) that stay strictly inside
\* |x/n1 - y/n2| < h/lcm, i.e. |x*n2g - y*n1g| < h.
RECURSIVE PathsInside(_, _, _, _, _)
PathsInside(x, y, n1g, n2g, h) ==
    IF Abs(x * n2g - y * n1g) >= h THEN 0
    ELSE IF x = 0 /\ y = 0 THEN 1
    ELSE (IF x > 0 THEN PathsInside(x - 1, y, n1g, n2g, h) ELSE 0)
       + (IF y > 0 THEN PathsInside(x, y - 1, n1g, n2g, h) ELSE 0)

\* cur_ks_test.pvalue, two-sided, method 'exact' (chosen by 'auto' while
\* max(n1, n2) <= 10000): h = round(d * lcm); 1.0 when h = 0, otherwise the
\* proportion of lattice paths that do not stay strictly inside the band.
KsPvalue(data1, data2) ==
    LET n1 == Len(data1)
        n2 == Len(data2)
        g == GCD(n1, n2)
        h == KsNum(data1, data2) \div g
        total == Binomial(n1 + n2, n1)
    IN  IF h = 0 THEN One
        ELSE RNorm(total - PathsInside(n1, n2, n1 \div g, n2 \div g, h), total)

\* ------------------------------------------------------------------ state
VARIABLES
    script,            \* which of the three scripts runs
    rnp,               \* the parent population
    sample_sizes,      \* the sweep
    num_iterations,    \* trials per sample size
    pc,                \* "sweep" (for s ...), "iter" (for i ...), "done", "failed"
    err,               \* the uncaught exception of a failed run
    idx,               \* position of the sweep loop in sample_sizes (1-based)
    i,                 \* loop variable of the iteration loop
    sampled_values,    \* the draw of the latest trial
    count_above_crit,
    cur_sample_gm_means, cur_sample_ksd, cur_sample_ksp, cur_fr_above_200,
    sample_gm_lower_bounds, sample_gm_upper_bounds,
    sample_ksd_lower_bounds, sample_ksd_upper_bounds, sample_ksd_medians,
    sample_ksp_lower_bounds, sample_ksp_upper_bounds, sample_ksp_medians,
    sample_arrs_ksd, sample_arrs_ksp,
    fr_above_200, fr_above_200_lower_bounds, fr_above_200_upper_bounds

config == <<script, rnp, sample_sizes, num_iterations>>
control == <<pc, err, idx, i>>
curs == <<cur_sample_gm_means, cur_sample_ksd, cur_sample_ksp, cur_fr_above_200>>
gm_bounds == <<sample_gm_lower_bounds, sample_gm_upper_bounds>>
ks_bounds == <<sample_ksd_lower_bounds, sample_ksd_upper_bounds, sample_ksd_medians,
               sample_ksp_lower_bounds, sample_ksp_upper_bounds, sample_ksp_medians,
               sample_arrs_ksd, sample_arrs_ksp>>
fr_bounds == <<fr_above_200, fr_above_200_lower_bounds, fr_above_200_upper_bounds>>
results == <<gm_bounds, ks_bounds, fr_bounds>>
vars == <<config, control, sampled_values, count_above_crit, curs, results>>

SizeRange == -1..(PopSize + 1)
IterRange == -1..MaxIter

Init ==
    /\ script \in Scripts
    /\ rnp \in Populations
    /\ sample_sizes \in UNION {[1..n -> SizeRange] : n \in 0..MaxSweep}
    /\ num_iterations \in IterRange
    /\ pc = "sweep"
    /\ err = ""
    /\ idx = 1
    /\ i = 0
    /\ sampled_values = <<>>
    /\ count_above_crit = 0
    /\ cur_sample_gm_means = <<>>
    /\ cur_sample_ksd = <<>>
    /\ cur_sample_ksp = <<>>
    /\ cur_fr_above_200 = <<>>
    /\ sample_gm_lower_bounds = <<>>
    /\ sample_gm_upper_bounds = <<>>
    /\ sample_ksd_lower_bounds = <<>>
    /\ sample_ksd_upper_bounds = <<>>
    /\ sample_ksd_medians = <<>>
    /\ sample_ksp_lower_bounds = <<>>
    /\ sample_ksp_upper_bounds = <<>>
    /\ sample_ksp_medians = <<>>
    /\ sample_arrs_ksd = <<>>
    /\ sample_arrs_ksp = <<>>
    /\ fr_above_200 = <<>>
    /\ fr_above_200_lower_bounds = <<>>
    /\ fr_above_200_upper_bounds = <<>>

HasKs == script \in {"KS", "FINAL"}

\* Faulty variant: the sweep runs over sorted(sample_sizes).
sInSortedOrder ==
    LET n == Len(sample_sizes)
        srt == CHOOSE t \in [1..n -> SizeRange] :
                  /\ \A j \in 1..(n - 1) : t[j] <= t[j + 1]
                  /\ \A v \in SizeRange :
                        Cardinality({j \in 1..n : t[j] = v})
                          = Cardinality({j \in 1..n : sample_sizes[j] = v})
    IN  srt[idx]

\* for s in (sample_sizes): the sample size of the current sweep entry.
s == sample_sizes[idx]

\* Faulty variant: the loop body runs once before the count is tested.
LoopRunsAtLeastOnce(k) == k < num_iterations \/ k = 0

\* for i in range(0, num_iterations): whether another trial runs.
LoopContinues(k) == k < num_iterations

\* crit_value = 1.36*pow((s+1e6)/(s*1e6),0.5) divides by zero when s = 0.
CritValueFails == HasKs /\ s = 0

\* cur_ksp > crit_value for a sample size n >= 1 and p = a/b, on squares:
\* a^2 * n * 10^10 > 18496 * b^2 * (n + 10^6).  Divided through by 10^6 and
\* then by 16, with the integer parts taken, so that every intermediate
\* value stays small.
AboveCrit(p, n) ==
    LET a2 == p[1] * p[1]
        b2 == p[2] * p[2]
        q == (18496 * b2) \div 1000000
        r == (18496 * b2) % 1000000
        rhs == 18496 * b2 + q * n + ((r * n) \div 1000000)
    IN  a2 * n * 625 > rhs \div 16

\* Faulty variant: the raw series are created once, not per sample size.
BeginSampleSizeNoReset ==
    /\ pc = "sweep"
    /\ idx <= Len(sample_sizes)
    /\ count_above_crit' = 0
    /\ i' = 0
    /\ IF CritValueFails
       THEN pc' = "failed" /\ err' = "ZeroDivisionError"
       ELSE pc' = "iter" /\ err' = err
    /\ UNCHANGED <<config, idx, sampled_values, curs, results>>

\* Start of a sweep entry: the raw series of the sample size are created
\* empty, then the critical value is computed.
BeginSampleSize ==
    /\ pc = "sweep"
    /\ idx <= Len(sample_sizes)
    /\ cur_sample_gm_means' = <<>>
    /\ cur_sample_ksd' = <<>>
    /\ cur_sample_ksp' = <<>>
    /\ cur_fr_above_200' = <<>>
    /\ count_above_crit' = 0
    /\ i' = 0
    /\ IF CritValueFails
       THEN pc' = "failed" /\ err' = "ZeroDivisionError"
       ELSE pc' = "iter" /\ err' = err
    /\ UNCHANGED <<config, idx, sampled_values, results>>

\* The exception the statistics of the script raise on the draw sv ("" if
\* none): the sample median of an empty draw, the division by count_tot = 0,
\* the KS test of an empty sample.
TrialError(sv) ==
    IF script = "GM"
    THEN (IF PercentileFails(AsFloats(sv)) THEN "IndexError" ELSE "")
    ELSE IF script = "FINAL" /\ ExceedFails(sv) THEN "ZeroDivisionError"
    ELSE IF KsFails(sv, rnp) THEN "ValueError"
    ELSE ""

\* Faulty variant: the KS test is run on a second, independent draw.
TrialBodyRedraw(sv) ==
    \E sel2 \in Choice(Len(rnp), Len(sv)) :
        LET ks_d == KsStatistic(Take(rnp, sel2), rnp)
            ks_p == KsPvalue(Take(rnp, sel2), rnp)
        IN  /\ sampled_values' = sv
            /\ cur_sample_gm_means' =
                 IF script = "GM"
                 THEN Append(cur_sample_gm_means, Percentile(AsFloats(sv), 50))
                 ELSE cur_sample_gm_means
            /\ cur_fr_above_200' =
                 IF script = "FINAL"
                 THEN Append(cur_fr_above_200, Exceed(sv))
                 ELSE cur_fr_above_200
            /\ cur_sample_ksd' =
                 IF HasKs THEN Append(cur_sample_ksd, ks_d) ELSE cur_sample_ksd
            /\ cur_sample_ksp' =
                 IF HasKs THEN Append(cur_sample_ksp, ks_p) ELSE cur_sample_ksp
            /\ count_above_crit' =
                 IF script = "KS" /\ AboveCrit(ks_p, s)
                 THEN count_above_crit + 1
                 ELSE count_above_crit

\* The body of one trial on its draw sv: every statistic of the script is
\* evaluated on sv and appended to its raw series.
TrialBody(sv) ==
    LET ks_d == KsStatistic(sv, rnp)
        ks_p == KsPvalue(sv, rnp)
    IN  /\ sampled_values' = sv
        /\ cur_sample_gm_means' =
             IF script = "GM"
             THEN Append(cur_sample_gm_means, Percentile(AsFloats(sv), 50))
             ELSE cur_sample_gm_means
        /\ cur_fr_above_200' =
             IF script = "FINAL"
             THEN Append(cur_fr_above_200, Exceed(sv))
             ELSE cur_fr_above_200
        /\ cur_sample_ksd' =
             IF HasKs THEN Append(cur_sample_ksd, ks_d) ELSE cur_sample_ksd
        /\ cur_sample_ksp' =
             IF HasKs THEN Append(cur_sample_ksp, ks_p) ELSE cur_sample_ksp
        /\ count_above_crit' =
             IF script = "KS" /\ AboveCrit(ks_p, s)
             THEN count_above_crit + 1
             ELSE count_above_crit

\* One resampling trial: a single draw, then the statistics.
Trial ==
    /\ pc = "iter"
    /\ LoopContinues(i)
    /\ \E sel \in Choice(Len(rnp), s) :
         /\ TrialError(Take(rnp, sel)) = ""
         /\ TrialBody(Take(rnp, sel))
    /\ i' = i + 1
    /\ UNCHANGED <<config, pc, err, idx, results>>

\* A trial whose draw or whose statistic raises: the exception is not
\* caught anywhere, the script ends.
TrialFails ==
    /\ pc = "iter"
    /\ LoopContinues(i)
    /\ IF Choice(Len(rnp), s) = {}
       THEN /\ err' = "ValueError"
            /\ sampled_values' = sampled_values
       ELSE \E sel \in Choice(Len(rnp), s) :
              /\ TrialError(Take(rnp, sel)) # ""
              /\ err' = TrialError(Take(rnp, sel))
              /\ sampled_values' = Take(rnp, sel)
    /\ pc' = "failed"
    /\ UNCHANGED <<config, idx, i, count_above_crit, curs, results>>

\* The raw series whose percentile is taken first after the iteration loop.
FirstSeries == IF script = "GM" THEN cur_sample_gm_means ELSE cur_sample_ksd

\* Faulty variant: a pasted line summarises the wrong series or percentile.
SummarizeWrongSeries ==
    /\ pc = "iter"
    /\ ~LoopContinues(i)
    /\ ~PercentileFails(FirstSeries)
    /\ IF script = "GM"
       THEN /\ sample_gm_lower_bounds' =
                 Append(sample_gm_lower_bounds, Percentile(cur_sample_gm_means, 5))
            /\ sample_gm_upper_bounds' =
                 Append(sample_gm_upper_bounds, Percentile(cur_sample_gm_means, 5))
            /\ UNCHANGED <<ks_bounds, fr_bounds>>
       ELSE /\ sample_ksd_lower_bounds' =
                 Append(sample_ksd_lower_bounds, Percentile(cur_sample_ksd, 5))
            /\ sample_ksd_upper_bounds' =
                 Append(sample_ksd_upper_bounds, Percentile(cur_sample_ksd, 95))
            /\ sample_ksd_medians' =
                 Append(sample_ksd_medians, Percentile(cur_sample_ksd, 50))
            /\ sample_ksp_lower_bounds' =
                 Append(sample_ksp_lower_bounds, Percentile(cur_sample_ksp, 5))
            /\ sample_ksp_upper_bounds' =
                 Append(sample_ksp_upper_bounds, Percentile(cur_sample_ksp, 95))
            /\ sample_ksp_medians' =
                 Append(sample_ksp_medians, Percentile(cur_sample_ksd, 50))
            /\ sample_arrs_ksd' = Append(sample_arrs_ksd, cur_sample_ksd)
            /\ sample_arrs_ksp' = Append(sample_arrs_ksp, cur_sample_ksp)
            /\ IF script = "FINAL"
               THEN /\ fr_above_200' =
                         Append(fr_above_200, Percentile(cur_fr_above_200, 50))
                    /\ fr_above_200_lower_bounds' =
                         Append(fr_above_200_lower_bounds, Percentile(cur_fr_above_200, 5))
                    /\ fr_above_200_upper_bounds' =
                         Append(fr_above_200_upper_bounds, Percentile(cur_fr_above_200, 95))
               ELSE UNCHANGED fr_bounds
            /\ UNCHANGED gm_bounds
    /\ idx' = idx + 1
    /\ pc' = "sweep"
    /\ UNCHANGED <<config, err, i, sampled_values, count_above_crit, curs>>

\* After the iteration loop: the percentiles of every raw series of the
\* script are appended to the bound lists, and the sweep moves on.
Summarize ==
    /\ pc = "iter"
    /\ ~LoopContinues(i)
    /\ ~PercentileFails(FirstSeries)
    /\ IF script = "GM"
       THEN /\ sample_gm_lower_bounds' =
                 Append(sample_gm_lower_bounds, Percentile(cur_sample_gm_means, 5))
            /\ sample_gm_upper_bounds' =
                 Append(sample_gm_upper_bounds, Percentile(cur_sample_gm_means, 95))
            /\ UNCHANGED <<ks_bounds, fr_bounds>>
       ELSE /\ sample_ksd_lower_bounds' =
                 Append(sample_ksd_lower_bounds, Percentile(cur_sample_ksd, 5))
            /\ sample_ksd_upper_bounds' =
                 Append(sample_ksd_upper_bounds, Percentile(cur_sample_ksd, 95))
            /\ sample_ksd_medians' =
                 Append(sample_ksd_medians, Percentile(cur_sample_ksd, 50))
            /\ sample_ksp_lower_bounds' =
                 Append(sample_ksp_lower_bounds, Percentile(cur_sample_ksp, 5))
            /\ sample_ksp_upper_bounds' =
                 Append(sample_ksp_upper_bounds, Percentile(cur_sample_ksp, 95))
            /\ sample_ksp_medians' =
                 Append(sample_ksp_medians, Percentile(cur_sample_ksp, 50))
            /\ sample_arrs_ksd' = Append(sample_arrs_ksd, cur_sample_ksd)
            /\ sample_arrs_ksp' = Append(sample_arrs_ksp, cur_sample_ksp)
            /\ IF script = "FINAL"
               THEN /\ fr_above_200' =
                         Append(fr_above_200, Percentile(cur_fr_above_200, 50))
                    /\ fr_above_200_lower_bounds' =
                         Append(fr_above_200_lower_bounds, Percentile(cur_fr_above_200, 5))
                    /\ fr_above_200_upper_bounds' =
                         Append(fr_above_200_upper_bounds, Percentile(cur_fr_above_200, 95))
               ELSE UNCHANGED fr_bounds
            /\ UNCHANGED gm_bounds
    /\ idx' = idx + 1
    /\ pc' = "sweep"
    /\ UNCHANGED <<config, err, i, sampled_values, count_above_crit, curs>>

\* The first percentile after an iteration loop that ran no trial raises.
SummarizeFails ==
    /\ pc = "iter"
    /\ ~LoopContinues(i)
    /\ PercentileFails(FirstSeries)
    /\ pc' = "failed"
    /\ err' = "IndexError"
    /\ UNCHANGED <<config, idx, i, sampled_values, count_above_crit, curs, results>>

\* The sweep loop is exhausted: the script goes on to plot the results.
Finish ==
    /\ pc = "sweep"
    /\ idx > Len(sample_sizes)
    /\ pc' = "done"
    /\ UNCHANGED <<config, err, idx, i, sampled_values, count_above_crit, curs, results>>

Next ==
    \/ BeginSampleSize
    \/ Trial
    \/ TrialFails
    \/ Summarize
    \/ SummarizeFails
    \/ Finish

Spec == Init /\ [][Next]_vars

\* =========================================================== properties
Injections(n, m) ==
    {f \in [1..n -> 1..m] : \A j, k \in 1..n : j # k => f[j] # f[k]}

Rearrangements(a) == {[k \in DOMAIN a |-> a[f[k]]] : f \in Injections(Len(a), Len(a))}

Last(a) == a[Len(a)]

\* The bound lists the running script appends to, one entry per sweep entry.
BoundLists ==
    IF script = "GM"
    THEN <<sample_gm_lower_bounds, sample_gm_upper_bounds>>
    ELSE <<sample_ksd_lower_bounds, sample_ksd_upper_bounds, sample_ksd_medians,
           sample_ksp_lower_bounds, sample_ksp_upper_bounds, sample_ksp_medians,
           sample_arrs_ksd, sample_arrs_ksp>>
         \o (IF script = "FINAL"
             THEN <<fr_above_200, fr_above_200_lower_bounds, fr_above_200_upper_bounds>>
             ELSE <<>>)

\* The raw series the running script fills, one entry per trial.
RawSeries ==
    IF script = "GM" THEN <<cur_sample_gm_means>>
    ELSE <<cur_sample_ksd, cur_sample_ksp>>
         \o (IF script = "FINAL" THEN <<cur_fr_above_200>> ELSE <<>>)

\* C1: a trial's draw at sample size n, 1 <= n <= population size, has
\* exactly n elements and they come from n pairwise distinct positions of
\* the population.
C1_DrawDistinctPositions ==
    (pc = "iter" /\ i > 0)
        => /\ Len(sampled_values) = sample_sizes[idx]
           /\ \E sel \in Injections(Len(sampled_values), Len(rnp)) :
                \A k \in 1..Len(sampled_values) : sampled_values[k] = rnp[sel[k]]

\* A draw of two values from a population of pairwise distinct values.
C1_Witness ==
    /\ pc = "iter"
    /\ i > 0
    /\ sample_sizes[idx] = 2
    /\ Len(sampled_values) = 2
    /\ \A j, k \in 1..Len(rnp) : j # k => rnp[j] # rnp[k]

\* C2: a trial appends to every raw series of the script the statistic of
\* the one draw of that trial (the draw left in sampled_values), so the
\* k-th entries of all raw series come from the same k-th draw.
C2_SameDraw ==
    [][i' = i + 1 =>
        /\ \A k \in 1..Len(RawSeries) : Len(RawSeries[k])' = i'
        /\ script = "GM" =>
             cur_sample_gm_means' =
                Append(cur_sample_gm_means, Percentile(AsFloats(sampled_values'), 50))
        /\ HasKs =>
             /\ cur_sample_ksd' =
                  Append(cur_sample_ksd, KsStatistic(sampled_values', rnp))
             /\ cur_sample_ksp' =
                  Append(cur_sample_ksp, KsPvalue(sampled_values', rnp))
        /\ script = "FINAL" =>
             cur_fr_above_200' = Append(cur_fr_above_200, Exceed(sampled_values'))
    ]_vars

\* Two trials of the final script whose draws gave different statistics.
C2_Witness ==
    /\ script = "FINAL"
    /\ pc = "iter"
    /\ i = 2
    /\ Len(cur_sample_ksd) = 2
    /\ Len(cur_fr_above_200) = 2
    /\ cur_sample_ksd[1] # cur_sample_ksd[2]
    /\ cur_sample_ksp[1] # cur_sample_ksp[2]
    /\ cur_fr_above_200[1] # cur_fr_above_200[2]

\* C3: the sweep follows sample_sizes in its given order: the bound lists
\* grow together, one entry per finished sweep entry; the trials that feed
\* entry number idx draw sample_sizes[idx] values; a finished sweep leaves
\* len(sample_sizes) entries in every bound list.
C3_SweepOrder ==
    /\ [](\A k \in 1..Len(BoundLists) : Len(BoundLists[k]) = idx - 1)
    /\ [](pc = "done" => idx - 1 = Len(sample_sizes))
    /\ [][i' = i + 1 =>
            /\ pc = "iter"
            /\ Len(sampled_values') = sample_sizes[Len(BoundLists[1]) + 1]]_vars
    /\ [][idx' # idx =>
            /\ idx' = idx + 1
            /\ \A k \in 1..Len(BoundLists) : Len(BoundLists[k])' = idx]_vars

\* A finished sweep whose sample sizes are in descending order.
C3_Witness ==
    /\ pc = "done"
    /\ Len(sample_sizes) = 2
    /\ sample_sizes[1] > sample_sizes[2]
    /\ \A k \in 1..Len(BoundLists) : Len(BoundLists[k]) = 2

\* A finished sweep with the same sample size twice and different bounds.
C3_WitnessDuplicates ==
    /\ pc = "done"
    /\ script = "GM"
    /\ Len(sample_sizes) = 2
    /\ sample_sizes[1] = sample_sizes[2]
    /\ Len(sample_gm_lower_bounds) = 2
    /\ sample_gm_lower_bounds[1] # sample_gm_lower_bounds[2]

\* The percentile at which each bound list summarises its raw series, and
\* the raw series it summarises (the raw series itself for sample_arrs_*).
BoundOf(name, series) ==
    IF name = "lower" THEN Percentile(series, 5)
    ELSE IF name = "median" THEN Percentile(series, 50)
    ELSE IF name = "upper" THEN Percentile(series, 95)
    ELSE series

\* <<bound list, raw series, kind>> for every bound list of the script.
Summaries ==
    IF script = "GM"
    THEN <<<<sample_gm_lower_bounds, cur_sample_gm_means, "lower">>,
          <<sample_gm_upper_bounds, cur_sample_gm_means, "upper">> >>
    ELSE <<<<sample_ksd_lower_bounds, cur_sample_ksd, "lower">>,
          <<sample_ksd_upper_bounds, cur_sample_ksd, "upper">>,
          <<sample_ksd_medians, cur_sample_ksd, "median">>,
          <<sample_ksp_lower_bounds, cur_sample_ksp, "lower">>,
          <<sample_ksp_upper_bounds, cur_sample_ksp, "upper">>,
          <<sample_ksp_medians, cur_sample_ksp, "median">>,
          <<sample_arrs_ksd, cur_sample_ksd, "raw">>,
          <<sample_arrs_ksp, cur_sample_ksp, "raw">> >>
         \o (IF script = "FINAL"
               THEN <<<<fr_above_200, cur_fr_above_200, "median">>,
                     <<fr_above_200_lower_bounds, cur_fr_above_200, "lower">>,
                     <<fr_above_200_upper_bounds, cur_fr_above_200, "upper">> >>
               ELSE <<>>)

\* A sweep entry has just been summarised: its raw series are still in place.
JustSummarized == pc \in {"sweep", "done"} /\ idx > 1

\* C4: inside the iteration loop every raw series holds exactly the i
\* results of the trials run so far at this sample size (none at i = 0) and
\* no bound of this sample size exists yet; a recorded bound is the
\* percentile of a raw series of exactly num_iterations results.
C4_FullSeries ==
    /\ \A k \in 1..Len(BoundLists) : Len(BoundLists[k]) = idx - 1
    /\ pc = "iter" =>
         /\ i >= 0
         /\ i <= num_iterations \/ i = 0
         /\ \A k \in 1..Len(RawSeries) : Len(RawSeries[k]) = i
    /\ JustSummarized =>
         \A k \in 1..Len(Summaries) :
            /\ Len(Summaries[k][2]) = num_iterations
            /\ Last(Summaries[k][1]) = BoundOf(Summaries[k][3], Summaries[k][2])
    /\ \A j \in 1..Len(sample_arrs_ksd) : Len(sample_arrs_ksd[j]) = num_iterations
    /\ \A j \in 1..Len(sample_arrs_ksp) : Len(sample_arrs_ksp[j]) = num_iterations

\* Two sweep entries of two trials each, both summarised.
C4_Witness ==
    /\ script = "FINAL"
    /\ pc = "done"
    /\ idx = 3
    /\ num_iterations = 2
    /\ Len(cur_fr_above_200) = 2
    /\ Len(fr_above_200) = 2
    /\ Len(sample_arrs_ksd) = 2

\* C5: a sample size above the population size makes the draw fail and
\* the failure ends the sweep: no bound is recorded for that entry or a
\* later one, no trial runs at a clamped size or in another sampling mode,
\* the bounds recorded before stay as they are, and the run never reaches
\* normal completion.
C5_OversizeAborts ==
    /\ [](\A j \in 1..Len(sample_sizes) :
            sample_sizes[j] > Len(rnp) =>
               /\ idx <= j
               /\ \A k \in 1..Len(BoundLists) : Len(BoundLists[k]) < j
               /\ pc # "done"
               /\ (idx = j /\ pc \in {"iter", "failed"}) =>
                     /\ i = 0
                     /\ \A k \in 1..Len(RawSeries) : RawSeries[k] = <<>>
               /\ (idx = j /\ pc = "failed" /\ num_iterations >= 1) =>
                     err = "ValueError")
    /\ [][pc' = "failed" => results' = results]_vars
    /\ [][pc # "failed"]_vars

\* The second sweep entry is oversized: the run failed on its draw, with
\* the bounds of the first entry in place.
C5_Witness ==
    /\ script = "FINAL"
    /\ pc = "failed"
    /\ err = "ValueError"
    /\ idx = 2
    /\ sample_sizes[2] > Len(rnp)
    /\ Len(fr_above_200) = 1
    /\ Len(sample_ksd_medians) = 1

\* C6: a sweep entry with a non-positive sample size, or any entry when
\* the iteration count is non-positive, ends the run with an exception
\* before a bound is recorded for it; no percentile is recorded from an
\* empty raw series or an empty subsample.
C6_NonPositiveRejected ==
    /\ \A j \in 1..Len(sample_sizes) :
          (sample_sizes[j] <= 0 \/ num_iterations <= 0) =>
             /\ idx <= j
             /\ \A k \in 1..Len(BoundLists) : Len(BoundLists[k]) < j
             /\ pc # "done"
    /\ pc = "failed" => err \in {"ValueError", "ZeroDivisionError", "IndexError"}
    /\ JustSummarized => \A k \in 1..Len(RawSeries) : RawSeries[k] # <<>>
    /\ \A j \in 1..Len(sample_arrs_ksd) : sample_arrs_ksd[j] # <<>>
    /\ \A j \in 1..Len(sample_arrs_ksp) : sample_arrs_ksp[j] # <<>>
    /\ (pc # "failed" /\ \E k \in 1..Len(RawSeries) : RawSeries[k] # <<>>) =>
          sampled_values # <<>>

\* The second sweep entry has sample size 0: the median of the empty draw
\* raised, with the bounds of the first entry in place.
C6_Witness ==
    /\ script = "GM"
    /\ pc = "failed"
    /\ err = "IndexError"
    /\ idx = 2
    /\ sample_sizes[2] = 0
    /\ sampled_values = <<>>
    /\ Len(sample_gm_lower_bounds) = 1

\* A sweep with no iterations: the first percentile of the first entry raised.
C6_WitnessNoIterations ==
    /\ pc = "failed"
    /\ err = "IndexError"
    /\ num_iterations = 0
    /\ sample_sizes[1] = 2
    /\ \A k \in 1..Len(BoundLists) : BoundLists[k] = <<>>

\* C7: the exceedance value appended for a trial is
\* 100 * #{subsample values > 200} / len(subsample), over the full
\* subsample, values equal to 200 not counted, and lies in [0, 100].
C7_Exceedance ==
    (script = "FINAL" /\ pc # "failed" /\ cur_fr_above_200 # <<>>) =>
        LET n == Len(sampled_values)
            c == Cardinality({k \in 1..n : sampled_values[k] > 200})
            v == Last(cur_fr_above_200)
        IN  /\ n > 0
            /\ v[2] > 0
            /\ v[1] * n = 100 * c * v[2]
            /\ 0 <= v[1]
            /\ v[1] <= 100 * v[2]

\* A draw of three values, one of them equal to 200 and one above it.
C7_Witness ==
    /\ script = "FINAL"
    /\ pc = "iter"
    /\ Len(sampled_values) = 3
    /\ \E k \in 1..3 : sampled_values[k] = 200
    /\ \E k \in 1..3 : sampled_values[k] < 200
    /\ cur_fr_above_200 # <<>>
    /\ Last(cur_fr_above_200) = <<100, 3>>

\* C8: the recorded percentiles depend only on the multiset of the raw
\* series: every rearrangement of a summarised series has the 5th, 50th
\* and 95th percentile that was recorded.
C8_PermutationInvariant ==
    JustSummarized =>
        \A k \in 1..Len(Summaries) :
            Summaries[k][3] # "raw" =>
                \A r \in Rearrangements(Summaries[k][2]) :
                    BoundOf(Summaries[k][3], r) = Last(Summaries[k][1])

\* A summarised series of two results in descending order.
C8_Witness ==
    /\ JustSummarized
    /\ script = "GM"
    /\ Len(cur_sample_gm_means) = 2
    /\ RLt(cur_sample_gm_means[2], cur_sample_gm_means[1])
    /\ Last(sample_gm_lower_bounds) # Last(sample_gm_upper_bounds)

\* The percentile rule of the specification: on the sorted input of length
\* n >= 1, rank = p/100*(n-1), linear interpolation between the values at
\* floor(rank) and ceil(rank).
RankRule(a, p) ==
    LET n == Len(a)
        sorted == CHOOSE t \in Rearrangements(a) :
                     \A j \in 1..(n - 1) : t[j][1] * t[j + 1][2] <= t[j + 1][1] * t[j][2]
        floor == (p * (n - 1)) \div 100
        ceil == IF (p * (n - 1)) % 100 = 0 THEN floor ELSE floor + 1
        lo == sorted[floor + 1]
        hi == sorted[ceil + 1]
        \* lo + (hi - lo) * (rank - floor), over the denominator 100*lo[2]*hi[2]
        num == 100 * lo[1] * hi[2]
                 + (hi[1] * lo[2] - lo[1] * hi[2]) * (p * (n - 1) - 100 * floor)
        den == 100 * lo[2] * hi[2]
    IN  <<num, den>>

SameNumber(x, y) == x[1] * y[2] = y[1] * x[2]

PercentOf(kind) == IF kind = "lower" THEN 5 ELSE IF kind = "median" THEN 50 ELSE 95

\* C9: the sample median of a trial and the 5th/50th/95th bounds of every
\* raw series all follow the rank rule; on a single element the result is
\* that element, whatever p.
C9_SharedRule ==
    /\ JustSummarized =>
          \A k \in 1..Len(Summaries) :
              Summaries[k][3] # "raw" =>
                 /\ SameNumber(Last(Summaries[k][1]),
                               RankRule(Summaries[k][2], PercentOf(Summaries[k][3])))
                 /\ Len(Summaries[k][2]) = 1 =>
                       Last(Summaries[k][1]) = Summaries[k][2][1]
    /\ (script = "GM" /\ pc # "failed" /\ cur_sample_gm_means # <<>>) =>
          /\ SameNumber(Last(cur_sample_gm_means),
                        RankRule([k \in DOMAIN sampled_values |-> <<sampled_values[k], 1>>], 50))
          /\ Len(sampled_values) = 1 =>
                Last(cur_sample_gm_means) = <<sampled_values[1], 1>>

\* Two different sample medians were summarised: the 5th percentile lies
\* strictly between them, and the medians came from draws of even size.
C9_Witness ==
    /\ JustSummarized
    /\ script = "GM"
    /\ Len(cur_sample_gm_means) = 2
    /\ Len(sampled_values) = 2
    /\ cur_sample_gm_means[1] # cur_sample_gm_means[2]
    /\ Last(sample_gm_lower_bounds) # cur_sample_gm_means[1]
    /\ Last(sample_gm_lower_bounds) # cur_sample_gm_means[2]
    /\ Last(cur_sample_gm_means)[2] = 1
    /\ \A k \in 1..2 : sampled_values[k] # Last(cur_sample_gm_means)[1]

\* C10: at a sample size equal to the population size the draw is a
\* rearrangement of the population and every trial's KS comparison gives
\* D = 0 and p-value = 1.
C10_FullPopulation ==
    (pc = "iter" /\ sample_sizes[idx] = Len(rnp)) =>
        /\ i > 0 => sampled_values \in Rearrangements(rnp)
        /\ HasKs =>
             /\ Len(cur_sample_ksd) = i
             /\ Len(cur_sample_ksp) = i
             /\ \A k \in 1..Len(cur_sample_ksd) : cur_sample_ksd[k] = <<0, 1>>
             /\ \A k \in 1..Len(cur_sample_ksp) : cur_sample_ksp[k] = <<1, 1>>

\* Two trials at the full population size, the latest draw not in the
\* population's own order.
C10_Witness ==
    /\ HasKs
    /\ pc = "iter"
    /\ sample_sizes[idx] = Len(rnp)
    /\ i = 2
    /\ sampled_values # rnp
    /\ cur_sample_ksd = <<(<<0, 1>>), (<<0, 1>>)>>
    /\ cur_sample_ksp = <<(<<1, 1>>), (<<1, 1>>)>>

\* Every list of recorded percentiles of the three scripts.
PercentileLists ==
    <<sample_gm_lower_bounds, sample_gm_upper_bounds,
      sample_ksd_lower_bounds, sample_ksd_medians, sample_ksd_upper_bounds,
      sample_ksp_lower_bounds, sample_ksp_medians, sample_ksp_upper_bounds,
      fr_above_200_lower_bounds, fr_above_200, fr_above_200_upper_bounds>>

\* The lists lo, med, up hold one entry per summarised sweep entry, the
\* latest being the 5th, 50th and 95th percentile of the raw series.
TripleOf(lo, med, up, series) ==
    /\ Len(lo) = idx - 1
    /\ Len(med) = idx - 1
    /\ Len(up) = idx - 1
    /\ Last(lo) = Percentile(series, 5)
    /\ Last(med) = Percentile(series, 50)
    /\ Last(up) = Percentile(series, 95)

\* C11 as stated: for every tracked statistic, the sample median included,
\* a 5th-, a 50th- and a 95th-percentile list is recorded, one entry per
\* summarised sample size.
C11_TripleForEveryStatistic ==
    JustSummarized =>
        \A k \in 1..Len(RawSeries) :
            \A p \in {5, 50, 95} :
                \E m \in 1..Len(PercentileLists) :
                    /\ Len(PercentileLists[m]) = idx - 1
                    /\ Last(PercentileLists[m]) = Percentile(RawSeries[k], p)

\* C11, amended: the KS D-statistic and the KS p-value (KS scripts) and the
\* exceedance fraction (final script) get the full triple, one entry per
\* summarised sample size, and every retained raw series agrees with the
\* triple at its index; the sample median (median script) gets the 5th and
\* the 95th percentile only, and nothing else is recorded for it.
C11_RecordedBounds ==
    /\ JustSummarized =>
          /\ HasKs =>
                /\ TripleOf(sample_ksd_lower_bounds, sample_ksd_medians,
                            sample_ksd_upper_bounds, cur_sample_ksd)
                /\ TripleOf(sample_ksp_lower_bounds, sample_ksp_medians,
                            sample_ksp_upper_bounds, cur_sample_ksp)
          /\ script = "FINAL" =>
                TripleOf(fr_above_200_lower_bounds, fr_above_200,
                         fr_above_200_upper_bounds, cur_fr_above_200)
          /\ script = "GM" =>
                /\ Len(sample_gm_lower_bounds) = idx - 1
                /\ Len(sample_gm_upper_bounds) = idx - 1
                /\ Last(sample_gm_lower_bounds) = Percentile(cur_sample_gm_means, 5)
                /\ Last(sample_gm_upper_bounds) = Percentile(cur_sample_gm_means, 95)
    /\ script = "GM" =>
          \A m \in 3..Len(PercentileLists) : PercentileLists[m] = <<>>
    /\ script = "KS" =>
          \A m \in {1, 2, 9, 10, 11} : PercentileLists[m] = <<>>
    /\ script = "FINAL" =>
          \A m \in {1, 2} : PercentileLists[m] = <<>>
    /\ pc = "done" =>
          \A k \in 1..Len(BoundLists) : Len(BoundLists[k]) = Len(sample_sizes)
    /\ \A j \in 1..Len(sample_arrs_ksd) :
          /\ sample_ksd_lower_bounds[j] = Percentile(sample_arrs_ksd[j], 5)
          /\ sample_ksd_medians[j] = Percentile(sample_arrs_ksd[j], 50)
          /\ sample_ksd_upper_bounds[j] = Percentile(sample_arrs_ksd[j], 95)
    /\ \A j \in 1..Len(sample_arrs_ksp) :
          /\ sample_ksp_lower_bounds[j] = Percentile(sample_arrs_ksp[j], 5)
          /\ sample_ksp_medians[j] = Percentile(sample_arrs_ksp[j], 50)
          /\ sample_ksp_upper_bounds[j] = Percentile(sample_arrs_ksp[j], 95)

\* A finished sweep of the median script: two entries in the lower and the
\* upper list, and the 50th percentile of the latest raw series is neither.
C11_Witness ==
    /\ script = "GM"
    /\ pc = "done"
    /\ Len(sample_sizes) = 2
    /\ Len(sample_gm_lower_bounds) = 2
    /\ Len(sample_gm_upper_bounds) = 2
    /\ Percentile(cur_sample_gm_means, 50) # Last(sample_gm_lower_bounds)
    /\ Percentile(cur_sample_gm_means, 50) # Last(sample_gm_upper_bounds)

\* A finished sweep of the final script with three distinct exceedance bounds.
C11_WitnessTriple ==
    /\ script = "FINAL"
    /\ pc = "done"
    /\ Len(sample_sizes) = 2
    /\ Len(fr_above_200) = 2
    /\ RLt(Last(fr_above_200_lower_bounds), Last(fr_above_200))
    /\ RLt(Last(fr_above_200), Last(fr_above_200_upper_bounds))

\* x lies between the minimum and the maximum of the series.
WithinRange(x, series) ==
    /\ \E k \in 1..Len(series) : series[k][1] * x[2] <= x[1] * series[k][2]
    /\ \E k \in 1..Len(series) : x[1] * series[k][2] <= series[k][1] * x[2]

NotAbove(x, y) == x[1] * y[2] <= y[1] * x[2]

\* C12: at every index the recorded bounds are ordered, lower <= median <=
\* upper (lower <= upper for the sample median, which has no median list),
\* and each bound lies between the minimum and the maximum of the raw
\* series it summarises.
C12_BoundsOrdered ==
    /\ \A j \in 1..Len(sample_gm_lower_bounds) :
          NotAbove(sample_gm_lower_bounds[j], sample_gm_upper_bounds[j])
    /\ \A j \in 1..Len(sample_ksd_lower_bounds) :
          /\ NotAbove(sample_ksd_lower_bounds[j], sample_ksd_medians[j])
          /\ NotAbove(sample_ksd_medians[j], sample_ksd_upper_bounds[j])
          /\ WithinRange(sample_ksd_lower_bounds[j], sample_arrs_ksd[j])
          /\ WithinRange(sample_ksd_medians[j], sample_arrs_ksd[j])
          /\ WithinRange(sample_ksd_upper_bounds[j], sample_arrs_ksd[j])
    /\ \A j \in 1..Len(sample_ksp_lower_bounds) :
          /\ NotAbove(sample_ksp_lower_bounds[j], sample_ksp_medians[j])
          /\ NotAbove(sample_ksp_medians[j], sample_ksp_upper_bounds[j])
          /\ WithinRange(sample_ksp_lower_bounds[j], sample_arrs_ksp[j])
          /\ WithinRange(sample_ksp_medians[j], sample_arrs_ksp[j])
          /\ WithinRange(sample_ksp_upper_bounds[j], sample_arrs_ksp[j])
    /\ \A j \in 1..Len(fr_above_200_lower_bounds) :
          /\ NotAbove(fr_above_200_lower_bounds[j], fr_above_200[j])
          /\ NotAbove(fr_above_200[j], fr_above_200_upper_bounds[j])
    /\ (JustSummarized /\ script = "GM") =>
          /\ WithinRange(Last(sample_gm_lower_bounds), cur_sample_gm_means)
          /\ WithinRange(Last(sample_gm_upper_bounds), cur_sample_gm_means)
    /\ (JustSummarized /\ script = "FINAL") =>
          /\ WithinRange(Last(fr_above_200_lower_bounds), cur_fr_above_200)
          /\ WithinRange(Last(fr_above_200), cur_fr_above_200)
          /\ WithinRange(Last(fr_above_200_upper_bounds), cur_fr_above_200)

\* Two summarised sweep entries of the KS script whose D-statistic bounds
\* are strictly ordered, the raw series of the first in descending order.
C12_Witness ==
    /\ script = "KS"
    /\ Len(sample_ksd_lower_bounds) = 2
    /\ \A j \in 1..2 :
          /\ RLt(sample_ksd_lower_bounds[j], sample_ksd_medians[j])
          /\ RLt(sample_ksd_medians[j], sample_ksd_upper_bounds[j])
    /\ RLt(sample_arrs_ksd[1][2], sample_arrs_ksd[1][1])

====
